---- MODULE Spec2Model ----
(***************************************************************************)
(* Model of content-style-transfer-using-rag.                              *)
(*                                                                         *)
(* The front end: the GenerateReply component (generation of the reply     *)
(* pair, the six evaluation scores, the export of the evaluation record),  *)
(* the GeneratePage form, the EmailSearch page with its recipients,        *)
(* conversation and thread queries, and the EmailUploader.                 *)
(*                                                                         *)
(* The core behind the HTTP interface: the generation service, the Corpus  *)
(* Store with its queries and its ingestion, the Retriever and the Thread  *)
(* Reconstructor.                                                          *)
(*                                                                         *)
(* Each part has its own specification over its own variables; the         *)
(* variables of the other parts stay as they are initially.                *)
(***************************************************************************)
EXTENDS Integers, Sequences, FiniteSets, Bags, TLC

\* ------------------------------------------------------------------ bounds
\* longest custom prompt the user types (prompts are strings over PromptChars)
MaxPromptLen == 1
\* number of distinct texts the generation service may return per variant
MaxGen == 2
\* largest clock reading taken by saveResults
MaxTime == 2
\* longest conversation the filter of fetchEmails is applied to
MaxConv == 3
\* number of fetches of one kind EmailSearch may have outstanding
MaxInFlight == 2
\* largest number of files in one upload
MaxBatch == 2
\* largest similarity score, latest sent_at and largest k of a retrieval
MaxScore == 2
MaxSent == 2
MaxK == 4
\* number of messages the Thread Reconstructor is run on
MaxMsgs == 3

\* ------------------------------------------------------------------ values
\* JavaScript null (an object that is not a reply pair, a request or a file)
Null == [null |-> TRUE]

\* the unset score of a ReplyEvaluation (style_transfer: number | null)
Unset == -1

\* characters of the custom prompt
PromptChars == {"f"}

RECURSIVE StringsUpTo(_)
StringsUpTo(n) ==
    IF n = 0 THEN {<<>>}
    ELSE LET shorter == StringsUpTo(n - 1)
         IN  shorter \cup {Append(s, c) : s \in shorter, c \in PromptChars}

\* the texts the custom-prompt textarea can hold; <<>> is ''
Prompts == StringsUpTo(MaxPromptLen)

\* ThreadMessage values of the threads the page can hand to the component
Msg(id, from, to, subj, body) ==
    [message_id |-> id, sender |-> from, receiver |-> to,
     subject |-> subj, content |-> body]

\* the threads fetchThread can deliver: a message with its reply, and a
\* single message without a subject
Threads ==
    { << Msg("m1", "me@x", "bob@x", "Meeting", "c1"),
         Msg("m2", "bob@x", "me@x", "Re: Meeting", "c2") >>,
      << Msg("m3", "bob@x", "me@x", "", "c3") >> }

\* a scale that starts at 0
StyleButtons_fromZero == {0, 1, 2, 3, 4, 5}

\* the buttons rendered by StyleTransferScale
StyleButtons == {1, 2, 3, 4, 5}

\* the buttons rendered by BinaryScale
BinaryButtons == {0, 1}

\* useState initial value of reply1Eval and reply2Eval
EmptyEval ==
    [style_transfer |-> Unset, content_preservation |-> Unset,
     naturalness |-> Unset]

\* a generation that the service has not finished / that failed or timed out
NotYet == <<"pending">>
GenerationError == <<"GenerationError">>

\* the text of one generated reply: opaque, identified by variant and number
ReplyTexts(variant) == {<<variant, g>> : g \in 1..MaxGen}

\* the response bodies of a successful POST api/generate
ReplyPairs ==
    [full_context_reply : ReplyTexts("withContext"),
     thread_only_reply : ReplyTexts("contextFree")]

\* the variant generated for each field of the response
VariantOf ==
    [full_context_reply |-> "withContext", thread_only_reply |-> "contextFree"]

\* no request outstanding
Idle ==
    [st |-> "idle", body |-> Null, full_context_reply |-> NotYet,
     thread_only_reply |-> NotYet, data |-> Null]

VARIABLES
    threadMessages,     \* prop threadMessages ([] while the component is not rendered)
    myEmail,            \* prop myEmail
    selectedRecipient,  \* prop selectedRecipient
    customPrompt,       \* useState customPrompt
    generatedReplies,   \* useState generatedReplies (Null or a reply pair)
    loading,            \* useState loading
    reply1Eval,         \* useState reply1Eval
    reply2Eval,         \* useState reply2Eval
    net,                \* the fetch of handleGenerate that is outstanding
    alert,              \* the alert raised by the latest step ("" if none)
    download,           \* the file downloaded by the latest step (Null if none)
    saveClicked         \* the latest step was a click on the Save button

vars == <<threadMessages, myEmail, selectedRecipient, customPrompt,
          generatedReplies, loading, reply1Eval, reply2Eval, net, alert,
          download, saveClicked>>

props == <<threadMessages, myEmail, selectedRecipient>>
evals == <<reply1Eval, reply2Eval>>

\* ---------------------------------------------- state of the other parts
\* GeneratePage (app/generate/page.tsx)
VARIABLES
    formData,           \* useState formData
    generatedResponse,  \* useState generatedResponse
    isLoading,          \* useState isLoading
    error,              \* useState error
    gpNet               \* the fetch of handleSubmit that is outstanding

gpVars == <<formData, generatedResponse, isLoading, error, gpNet>>

\* EmailSearch (app/eml-reply/page.tsx); myEmail, selectedRecipient and
\* threadMessages are declared above as the props of GenerateReply
VARIABLES
    recipients,         \* useState recipients
    emails,             \* useState emails
    selectedEmailId,    \* useState selectedEmailId ("" if none)
    loadingRecipients,  \* useState loading of EmailSearch
    loadingEmails,      \* useState loadingEmails
    loadingThread,      \* useState loadingThread
    recipientsReq,      \* outstanding fetches of handleEmailSubmit
    conversationReqs,   \* outstanding fetches of fetchEmails
    threadReqs          \* outstanding fetches of fetchThread

pageVars == <<recipients, emails, selectedEmailId, loadingRecipients,
              loadingEmails, loadingThread, recipientsReq, conversationReqs,
              threadReqs>>

\* the response fetchEmails filtered last (Null before the first)
VARIABLES conversationData

listVars == <<conversationData>>

\* EmailUploader, and the Corpus Store behind POST upload-emails
VARIABLES
    files,              \* useState files (Null or the selected FileList)
    uploading,          \* useState uploading
    result,             \* useState result (Null or the response body)
    jobs,               \* the batches the service is ingesting, per client
    store,              \* the Message records of the Corpus Store
    locks               \* the message ids whose ingestion is in progress

uploadVars == <<files, uploading, result, jobs, store, locks>>

\* the Retriever: one call of retrieve
VARIABLES
    history,            \* the stored messages exchanged with bob@x
    counterpart,        \* argument counterpartEmail
    topK,               \* argument k
    retrievalResult     \* what retrieve returned (Null before the call)

retrieverVars == <<history, counterpart, topK, retrievalResult>>

\* the Thread Reconstructor: one run over the reference graph
VARIABLES
    parentOf,           \* parent_message_id of every message (0 if none)
    path,               \* the messages visited from the message being placed
    threadKey,          \* the root found for every message (0 if not yet)
    phase               \* "pick", "climb" or "done"

reconstructVars == <<parentOf, path, threadKey, phase>>

\* PasswordForm (components/PasswordForm.tsx) and POST api/check-password
VARIABLES
    CORRECT_PASSWORD,   \* process.env.PASSWORD, read when route.ts is loaded
    password,           \* useState password
    pfError,            \* useState error of PasswordForm
    pfLoading,          \* useState loading of PasswordForm
    pfNet,              \* the fetch of PasswordForm.handleSubmit
    location,           \* the route the router shows
    posted              \* the request the route handled last, and its response

passwordVars == <<CORRECT_PASSWORD, password, pfError, pfLoading, pfNet,
                  location, posted>>

\* the custom_prompt of the request whose response generatedReplies holds:
\* what the generation service was given for the replies displayed
VARIABLES promptSent

\* state of GenerateReply that is not a prop of it
componentVars == <<customPrompt, generatedReplies, loading, evals, net,
                   download, saveClicked>>

\* the state of the other parts
outsideRecord ==
    <<gpVars, pageVars, listVars, uploadVars, retrieverVars,
      reconstructVars,
      passwordVars>>

\* everything that is not state of GenerateReply or a prop of it
outsideGenerateReply == <<outsideRecord, promptSent>>

\* everything that is not state of GeneratePage
outsideGeneratePage ==
    <<vars, pageVars, listVars, uploadVars, retrieverVars,
      reconstructVars,
      passwordVars, promptSent>>

\* everything that is not state of EmailSearch
outsideEmailSearch ==
    <<componentVars, gpVars, listVars, uploadVars, retrieverVars,
      reconstructVars,
      passwordVars, promptSent>>

\* everything the filter of fetchEmails leaves alone
outsideThreadList ==
    <<vars, gpVars, recipients, selectedEmailId, loadingRecipients,
      loadingEmails, loadingThread, recipientsReq, conversationReqs,
      threadReqs, uploadVars, retrieverVars, reconstructVars,
      passwordVars, promptSent>>

\* everything that is not state of EmailUploader or of the Corpus Store
outsideUpload ==
    <<props, componentVars, gpVars, pageVars, listVars, retrieverVars,
      reconstructVars,
      passwordVars, promptSent>>

\* everything that is not state of the Retriever
outsideRetriever ==
    <<vars, gpVars, pageVars, listVars, uploadVars, reconstructVars,
      passwordVars, promptSent>>

\* everything that is not state of the Thread Reconstructor
outsideReconstruct ==
    <<vars, gpVars, pageVars, listVars, uploadVars, retrieverVars,
      passwordVars, promptSent>>

\* ------------------------------------------------ values of GeneratePage
\* what the user can type into a field of the form
MailTexts == {"", "hi"}
Addresses == {"", "me@x", "bob@x"}

\* generatedResponse before any reply, and the fallback of handleSubmit
NoResponse == <<>>
NoReplyContent == <<"No reply content received.", 0>>

\* the JSON bodies a 200 response of api/generate can carry for this page:
\* a reply, or a falsy body
GpReplies == {<<"reply", g>> : g \in 1..MaxGen} \cup {NoResponse}

GpIdle == [st |-> "idle", body |-> Null, data |-> NoResponse]

GpInit ==
    /\ formData = [incomingMail |-> "", receiver |-> "", sender |-> "",
                   customPrompt |-> <<>>]
    /\ generatedResponse = NoResponse
    /\ isLoading = FALSE
    /\ error = Null
    /\ gpNet = GpIdle

\* --------------------------------------------------------------- subjects
\* A subject is a string, written as the sequence of its pieces: words,
\* reply/forward prefixes in the spellings met in mail, and single blanks.
\* "Re: Meeting" is <<"Re:", " ", "Meeting">>, '' is <<>>.
Subjects ==
    { <<>>,
      <<"Meeting">>,
      <<" ", "Meeting">>,
      <<"Re:", " ", "Meeting">>,
      <<"RE:", " ", "Meeting">>,
      <<"Re:", " ", "Re:", " ", "Meeting">>,
      <<"Fwd:", " ", "Meeting">>,
      <<"Lunch">>,
      <<"Re:", "Lunch">>,
      <<"Team", " ", "Lunch">>,
      <<"Team", " ", " ", "Lunch">> }

\* String.prototype.trim
RECURSIVE trimStart(_)
trimStart(str) ==
    IF str # <<>> /\ Head(str) = " " THEN trimStart(Tail(str)) ELSE str

RECURSIVE trimEnd(_)
trimEnd(str) ==
    IF str # <<>> /\ str[Len(str)] = " "
    THEN trimEnd(SubSeq(str, 1, Len(str) - 1))
    ELSE str

trim(str) == trimEnd(trimStart(str))

\* the pieces matched by /^Re:/i
ReplyPrefixes == {"Re:", "RE:", "re:", "rE:"}

\* getBaseSubject of fetchEmails: subject?.trim().replace(/^Re:\s*/i, '') || ''
getBaseSubject(subject) ==
    LET trimmed == trim(subject)
    IN  IF trimmed # <<>> /\ Head(trimmed) \in ReplyPrefixes
        THEN trimStart(Tail(trimmed))
        ELSE trimmed

\* data.filter of fetchEmails with its seenSubjects set: from position i on
RECURSIVE filterUnseen(_, _, _)
filterUnseen(data, i, seenSubjects) ==
    IF i > Len(data) THEN <<>>
    ELSE LET baseSubject == getBaseSubject(data[i].subject)
         IN  IF baseSubject \in seenSubjects
             THEN filterUnseen(data, i + 1, seenSubjects)
             ELSE <<data[i]>> \o
                  filterUnseen(data, i + 1, seenSubjects \cup {baseSubject})

uniqueThreads(data) == filterUnseen(data, 1, {})

\* the filter of the earlier fetchEmails:
\* email.subject && !email.subject.trim().startsWith('Re:')
nonReplyEmails(data) ==
    SelectSeq(data, LAMBDA email :
        /\ email.subject # <<>>
        /\ LET trimmed == trim(email.subject)
           IN  ~(trimmed # <<>> /\ Head(trimmed) = "Re:"))

\* the spellings of reply and forward prefixes
AnyPrefixes == ReplyPrefixes \cup {"Fwd:", "FWD:", "fwd:", "Fw:", "FW:", "fw:"}

\* leading prefixes and blanks removed, repeatedly
RECURSIVE stripPrefixes(_)
stripPrefixes(str) ==
    IF str # <<>> /\ (Head(str) = " " \/ Head(str) \in AnyPrefixes)
    THEN stripPrefixes(Tail(str))
    ELSE str

\* runs of blanks collapsed to one blank
RECURSIVE collapseBlanks(_)
collapseBlanks(str) ==
    IF Len(str) < 2 THEN str
    ELSE IF str[1] = " " /\ str[2] = " " THEN collapseBlanks(Tail(str))
    ELSE <<Head(str)>> \o collapseBlanks(Tail(str))

\* normalized_subject of a Message
NormalizedSubject(subject) == collapseBlanks(trimEnd(stripPrefixes(subject)))

\* the response bodies of GET emails/conversation the filter is applied to:
\* message ids are the positions in the conversation
Conversations ==
    UNION { { [i \in 1..n |-> [message_id |-> i, subject |-> f[i]]] :
                f \in [1..n -> Subjects] } : n \in 0..MaxConv }

ListInit == conversationData = Null

\* ------------------------------------------------------- the corpus
\* a Message without a parsable date
NoDate == -1

\* the messages of the Corpus Store the page is used on: a message with two
\* replies, one of them without a date, a message of another counterpart,
\* and a message that shares its subject with that one
Corpus ==
    { [message_id |-> "p1", sender |-> "me@x", receiver |-> "bob@x",
       subject |-> <<"Meeting">>, content |-> "c1", sent_at |-> 1],
      [message_id |-> "p2", sender |-> "bob@x", receiver |-> "me@x",
       subject |-> <<"Re:", " ", "Meeting">>, content |-> "c2",
       sent_at |-> NoDate],
      [message_id |-> "p3", sender |-> "bob@x", receiver |-> "me@x",
       subject |-> <<"Re:", " ", "Meeting">>, content |-> "c3", sent_at |-> 2],
      [message_id |-> "p4", sender |-> "carol@x", receiver |-> "me@x",
       subject |-> <<"Lunch">>, content |-> "c4", sent_at |-> 3],
      [message_id |-> "p5", sender |-> "bob@x", receiver |-> "me@x",
       subject |-> <<"Lunch">>, content |-> "c5", sent_at |-> 2] }

\* ingestion order of the corpus
IngestedBefore(m1, m2) ==
    LET rank == [p1 |-> 1, p2 |-> 2, p3 |-> 3, p4 |-> 4, p5 |-> 5]
    IN  rank[m1.message_id] < rank[m2.message_id]

\* sent_at ascending, missing dates last, ties in ingestion order
Earlier(m1, m2) ==
    IF m1.sent_at = m2.sent_at THEN IngestedBefore(m1, m2)
    ELSE IF m1.sent_at = NoDate THEN FALSE
    ELSE IF m2.sent_at = NoDate THEN TRUE
    ELSE m1.sent_at < m2.sent_at

RECURSIVE chronological(_)
chronological(msgs) ==
    IF msgs = {} THEN <<>>
    ELSE LET first == CHOOSE m \in msgs :
                          \A other \in msgs \ {m} : Earlier(m, other)
         IN  <<first>> \o chronological(msgs \ {first})

\* messages between two addresses, in either direction
Between(a, b) ==
    {m \in Corpus : {m.sender, m.receiver} = {a, b} /\ a # b}

\* Corpus Store recipientsOf: descending count, ties by address ascending
\* (the addresses of the corpus in ascending order are bob@x, carol@x, me@x)
recipientsOf(address) ==
    LET ascending == <<"bob@x", "carol@x", "me@x">>
        count(other) == Cardinality(Between(address, other))
        met == SelectSeq(ascending, LAMBDA other : count(other) > 0)
        entry(other) == [email |-> other, count |-> count(other)]
    IN  SortSeq([i \in DOMAIN met |-> entry(met[i])],
                LAMBDA r1, r2 : r1.count > r2.count)

\* the summary fields of GET emails/conversation
Summary(m) ==
    [message_id |-> m.message_id, subject |-> m.subject, sender |-> m.sender,
     receiver |-> m.receiver, sent_at |-> m.sent_at]

\* Corpus Store conversation
conversation(a, b) ==
    LET msgs == chronological(Between(a, b))
    IN  [i \in DOMAIN msgs |-> Summary(msgs[i])]

\* Corpus Store threadBySubject; <<>> stands for NotFound
threadBySubject(subject) ==
    chronological({m \in Corpus :
        NormalizedSubject(m.subject) = NormalizedSubject(subject)})

\* ------------------------------------------------- state of EmailSearch
\* useState initial values of EmailSearch, no fetch outstanding
PageStateInit ==
    /\ recipients = <<>>
    /\ emails = <<>>
    /\ selectedEmailId = ""
    /\ loadingRecipients = FALSE
    /\ loadingEmails = FALSE
    /\ loadingThread = FALSE
    /\ recipientsReq = EmptyBag
    /\ conversationReqs = EmptyBag
    /\ threadReqs = EmptyBag

\* ------------------------------------------------------ upload values
\* the raw files the user of EmailUploader selects from, and the files of
\* another client that ingests at the same time
UploaderFiles == {"a.eml", "bad.eml"}
OtherFiles == {"a.eml", "b.eml"}

ParseError == [error |-> "ParseError"]

\* Message Parser: a.eml and b.eml hold two messages between alice@x and
\* bob@x, bad.eml has no recognizable structure
Parse(file) ==
    CASE file = "a.eml" ->
           [message_id |-> "ma", sender |-> "alice@x", receiver |-> "bob@x",
            subject |-> "Hello"]
      [] file = "b.eml" ->
           [message_id |-> "mb", sender |-> "bob@x", receiver |-> "alice@x",
            subject |-> "Re: Hello"]
      [] OTHER -> ParseError

\* the FileLists the file input can hold (an empty one after a cancelled
\* dialog)
FileLists == UNION {[1..n -> UploaderFiles] : n \in 0..MaxBatch}

\* the clients whose batches the service ingests: EmailUploader and another
Clients == {"uploader", "other"}

NoJob == [st |-> "idle", files |-> <<>>, outcomes |-> <<>>, msg |-> Null,
          exists |-> FALSE]

UploadInit ==
    /\ files = Null
    /\ uploading = FALSE
    /\ result = Null
    /\ jobs = [c \in Clients |-> NoJob]
    /\ store = <<>>
    /\ locks = {}

\* --------------------------------------------------- retrieval values
\* the message being replied to, and the other messages that may have been
\* exchanged with bob@x
ReplyingTo == "h0"
HistoryIds == {"h1", "h2", "h3"}

\* what is known of a stored message at retrieval: its similarity to the
\* query text and its date
Scored == [score : 0..MaxScore, sent_at : 1..MaxSent]

\* the message replied to is the one most similar to the query, and the
\* latest
Current == [score |-> MaxScore, sent_at |-> MaxSent]

\* the histories with bob@x: the message replied to and any of the others
Histories ==
    UNION { {h \in [ids \cup {ReplyingTo} -> Scored] : h[ReplyingTo] = Current} :
              ids \in SUBSET HistoryIds }

\* no call of retrieve
RetrieverIdle ==
    /\ history = [id \in {ReplyingTo} |-> Current]
    /\ counterpart = ""
    /\ topK = 0
    /\ retrievalResult = Null

\* ---------------------------------------------- reconstruction values
\* the messages of a run of the Thread Reconstructor, by message id
Msgs == 1..MaxMsgs

\* a message without a resolvable parent
NoParent == 0

\* no run of the Thread Reconstructor
ReconstructIdle ==
    /\ parentOf = [m \in Msgs |-> NoParent]
    /\ path = <<>>
    /\ threadKey = [m \in Msgs |-> 0]
    /\ phase = "done"

\* ------------------------------------------------- password values
\* a JSON value as JavaScript sees it: its type and its text
JsValue(t, v) == [t |-> t, v |-> v]
Undefined == JsValue("undefined", "")

\* what can be typed into the password input
Passwords == {"", "pw", "no"}

\* the values of process.env.PASSWORD: not configured, empty, or set
Configured == {Undefined, JsValue("string", ""), JsValue("string", "pw")}

\* the values a client can put into the password member of a body
PasswordValues ==
    {Undefined, JsValue("null", ""), JsValue("number", "0"), JsValue("number", "5")}
        \cup {JsValue("string", str) : str \in Passwords}

\* the bodies a client can send: a JSON object with or without a password
\* member, and a body request.json() cannot be destructured from (no JSON
\* text, or the JSON text null)
Bodies ==
    {[readable |-> TRUE, password |-> value] : value \in PasswordValues}
        \cup {[readable |-> FALSE, password |-> Undefined]}

\* no request was handled, no fetch is outstanding
NoRequest == [body |-> Null, response |-> Null]
NoFetch == [st |-> "idle", body |-> Null, response |-> Null]

\* useState initial values of PasswordForm on the page it is rendered on
PasswordFormInit ==
    /\ password = ""
    /\ pfError = ""
    /\ pfLoading = FALSE
    /\ pfNet = NoFetch
    /\ location = "/"
    /\ posted = NoRequest

\* the gate with a password configured, not used
PasswordIdle ==
    /\ CORRECT_PASSWORD = JsValue("string", "pw")
    /\ PasswordFormInit

\* ------------------------------------------------------------- the page
\* GenerateReply is rendered only while threadMessages is not empty
Mounted == Len(threadMessages) > 0

\* GenerateReply before it is rendered, with the props it will be given
GenerateReplyInit ==
    /\ threadMessages = <<>>
    /\ myEmail = "me@x"
    /\ selectedRecipient = "bob@x"
    /\ customPrompt = <<>>
    /\ generatedReplies = Null
    /\ loading = FALSE
    /\ reply1Eval = EmptyEval
    /\ reply2Eval = EmptyEval
    /\ net = Idle
    /\ alert = ""
    /\ download = Null
    /\ saveClicked = FALSE
    /\ promptSent = <<>>

Init ==
    /\ GenerateReplyInit
    /\ GpInit
    /\ PageStateInit
    /\ ListInit
    /\ UploadInit
    /\ PasswordIdle
    /\ RetrieverIdle
    /\ ReconstructIdle

\* fetchThread stores the thread it received; a component that is already
\* rendered keeps its state and sees the new prop
setThreadMessages(t) ==
    /\ threadMessages' = t
    /\ alert' = ""
    /\ download' = Null
    /\ saveClicked' = FALSE
    /\ UNCHANGED outsideGenerateReply
    /\ UNCHANGED <<myEmail, selectedRecipient, customPrompt, generatedReplies,
                   loading, reply1Eval, reply2Eval, net>>

\* handleThreadSelect / handleRecipientSelect / handleEmailSubmit clear the
\* thread: the component is unmounted and its state is lost.  The
\* continuation of an outstanding handleGenerate addresses the unmounted
\* instance, so its state updates change nothing; net follows the request of
\* the rendered instance only
clearThreadMessages ==
    /\ Mounted
    /\ threadMessages' = <<>>
    /\ customPrompt' = <<>>
    /\ generatedReplies' = Null
    /\ loading' = FALSE
    /\ reply1Eval' = EmptyEval
    /\ reply2Eval' = EmptyEval
    /\ net' = Idle
    /\ alert' = ""
    /\ download' = Null
    /\ saveClicked' = FALSE
    /\ UNCHANGED outsideGenerateReply
    /\ UNCHANGED <<myEmail, selectedRecipient>>

\* ------------------------------------------------------- GenerateReply
\* onChange of the custom-prompt textarea
setCustomPrompt(p) ==
    /\ Mounted
    /\ customPrompt' = p
    /\ alert' = ""
    /\ download' = Null
    /\ saveClicked' = FALSE
    /\ UNCHANGED outsideGenerateReply
    /\ UNCHANGED <<props, generatedReplies, loading, evals, net>>

\* a Generate button that stays enabled while a request is outstanding
GenerateDisabled_emptyOnly == Len(threadMessages) = 0

\* the Generate button: disabled={loading || threadMessages.length === 0}
GenerateDisabled == loading \/ Len(threadMessages) = 0

\* body of the POST api/generate request
RequestBody ==
    [sender |-> myEmail,
     receiver |-> selectedRecipient,
     content |-> threadMessages[Len(threadMessages)].content,
     custom_prompt |-> customPrompt,
     thread_messages |-> threadMessages]

\* handleGenerate without setGeneratedReplies(null)
handleGenerate_keepsReplies ==
    /\ Mounted
    /\ ~GenerateDisabled
    /\ loading' = TRUE
    /\ reply1Eval' = EmptyEval
    /\ reply2Eval' = EmptyEval
    /\ net' = [Idle EXCEPT !.st = "pending", !.body = RequestBody]
    /\ alert' = ""
    /\ download' = Null
    /\ saveClicked' = FALSE
    /\ UNCHANGED outsideGenerateReply
    /\ UNCHANGED <<props, customPrompt, generatedReplies>>

\* handleGenerate without the reset of the evaluations
handleGenerate_keepsScores ==
    /\ Mounted
    /\ ~GenerateDisabled
    /\ loading' = TRUE
    /\ generatedReplies' = Null
    /\ net' = [Idle EXCEPT !.st = "pending", !.body = RequestBody]
    /\ alert' = ""
    /\ download' = Null
    /\ saveClicked' = FALSE
    /\ UNCHANGED outsideGenerateReply
    /\ UNCHANGED <<props, customPrompt, evals>>

\* handleGenerate up to the await of fetch
handleGenerate ==
    /\ Mounted
    /\ ~GenerateDisabled
    /\ loading' = TRUE
    /\ generatedReplies' = Null
    /\ reply1Eval' = EmptyEval
    /\ reply2Eval' = EmptyEval
    /\ net' = [Idle EXCEPT !.st = "pending", !.body = RequestBody]
    /\ alert' = ""
    /\ download' = Null
    /\ saveClicked' = FALSE
    /\ UNCHANGED outsideGenerateReply
    /\ UNCHANGED <<props, customPrompt>>

\* ------------------------------------------- the generation service
front == <<props, customPrompt, generatedReplies, loading, evals, alert,
           download, saveClicked, outsideGenerateReply>>

\* one of the two independent generation calls returns its text
GenerateVariant(field, text) ==
    /\ net.st = "pending"
    /\ net[field] = NotYet
    /\ net' = [net EXCEPT ![field] = text]
    /\ UNCHANGED front

\* one of the two generation calls fails or times out in the service
VariantFails(field) ==
    /\ net.st = "pending"
    /\ net[field] = NotYet
    /\ net' = [net EXCEPT ![field] = GenerationError]
    /\ UNCHANGED front

\* both calls have returned: 200 with the pair
RespondPair ==
    /\ net.st = "pending"
    /\ net.full_context_reply \notin {NotYet, GenerationError}
    /\ net.thread_only_reply \notin {NotYet, GenerationError}
    /\ net' = [net EXCEPT !.st = "ok",
                          !.data = [full_context_reply |-> net.full_context_reply,
                                    thread_only_reply |-> net.thread_only_reply]]
    /\ UNCHANGED front

\* a call has failed: the failure is surfaced as a non-OK response
RespondError ==
    /\ net.st = "pending"
    /\ GenerationError \in {net.full_context_reply, net.thread_only_reply}
    /\ net' = [net EXCEPT !.st = "bad"]
    /\ UNCHANGED front

\* the request or its response is lost on the way: fetch rejects
NetworkError ==
    /\ net.st = "pending"
    /\ net' = [net EXCEPT !.st = "neterr"]
    /\ UNCHANGED front

\* ------------------------------------------- GenerateReply, continued
\* handleGenerate after the await, response.ok: what it does to the
\* component
GenerateOkStep ==
    /\ net.st = "ok"
    /\ generatedReplies' = net.data
    /\ loading' = FALSE
    /\ net' = Idle
    /\ alert' = ""
    /\ download' = Null
    /\ saveClicked' = FALSE
    /\ UNCHANGED outsideRecord
    /\ UNCHANGED <<props, customPrompt, evals>>

\* a continuation that stores the first reply only
GenerateOk_firstOnly ==
    /\ net.st = "ok"
    /\ generatedReplies' = [full_context_reply |-> net.data.full_context_reply]
    /\ loading' = FALSE
    /\ net' = Idle
    /\ alert' = ""
    /\ download' = Null
    /\ saveClicked' = FALSE
    /\ UNCHANGED outsideGenerateReply
    /\ UNCHANGED <<props, customPrompt, evals>>

\* handleGenerate after the await, response.ok: rest of try, and finally
GenerateOk == GenerateOkStep /\ UNCHANGED promptSent

\* a catch block that sends the request again instead of reporting
GenerateFailed_retry ==
    /\ net.st \in {"bad", "neterr"}
    /\ net' = [Idle EXCEPT !.st = "pending", !.body = net.body]
    /\ alert' = ""
    /\ download' = Null
    /\ saveClicked' = FALSE
    /\ UNCHANGED outsideGenerateReply
    /\ UNCHANGED <<props, customPrompt, generatedReplies, loading, evals>>

\* handleGenerate after the await, !response.ok or fetch rejected: catch
\* and finally
GenerateFailed ==
    /\ net.st \in {"bad", "neterr"}
    /\ loading' = FALSE
    /\ net' = Idle
    /\ alert' = "Error generating reply. Please try again."
    /\ download' = Null
    /\ saveClicked' = FALSE
    /\ UNCHANGED outsideGenerateReply
    /\ UNCHANGED <<props, customPrompt, generatedReplies, evals>>

\* the replies, the evaluation panels and the Save button are rendered only
\* under {generatedReplies && ...}
PanelsRendered == Mounted /\ generatedReplies # Null

\* a StyleTransferScale button of panel 1 or 2:
\* setEvalData(prev => ({ ...prev, style_transfer: val }))
StyleTransferClick(panel, val) ==
    /\ PanelsRendered
    /\ IF panel = 1
       THEN /\ reply1Eval' = [reply1Eval EXCEPT !.style_transfer = val]
            /\ UNCHANGED reply2Eval
       ELSE /\ reply2Eval' = [reply2Eval EXCEPT !.style_transfer = val]
            /\ UNCHANGED reply1Eval
    /\ alert' = ""
    /\ download' = Null
    /\ saveClicked' = FALSE
    /\ UNCHANGED outsideGenerateReply
    /\ UNCHANGED <<props, customPrompt, generatedReplies, loading, net>>

\* a BinaryScale button of panel 1 or 2, for content_preservation or
\* naturalness
BinaryClick(panel, field, val) ==
    /\ PanelsRendered
    /\ IF panel = 1
       THEN /\ reply1Eval' = [reply1Eval EXCEPT ![field] = val]
            /\ UNCHANGED reply2Eval
       ELSE /\ reply2Eval' = [reply2Eval EXCEPT ![field] = val]
            /\ UNCHANGED reply1Eval
    /\ alert' = ""
    /\ download' = Null
    /\ saveClicked' = FALSE
    /\ UNCHANGED outsideGenerateReply
    /\ UNCHANGED <<props, customPrompt, generatedReplies, loading, net>>

\* isEvaluationComplete with || in place of &&
isEvaluationComplete_anyScore(evalData) ==
    \/ evalData.style_transfer # Unset
    \/ evalData.content_preservation # Unset
    \/ evalData.naturalness # Unset

isEvaluationComplete(evalData) ==
    /\ evalData.style_transfer # Unset
    /\ evalData.content_preservation # Unset
    /\ evalData.naturalness # Unset

\* canSaveResults that looks at the first reply only
canSaveResults_firstOnly == isEvaluationComplete(reply1Eval)

canSaveResults ==
    isEvaluationComplete(reply1Eval) /\ isEvaluationComplete(reply2Eval)

\* threadMessages[0]?.subject || 'Unknown Subject'
ThreadSubject ==
    IF Len(threadMessages) = 0 \/ threadMessages[1].subject = ""
    THEN "Unknown Subject"
    ELSE threadMessages[1].subject

\* a result that takes the scores of RAG from Reply 2 and of noRAG from Reply 1
EvaluationResult_swapped(ts) ==
    [timestamp |-> ts,
     thread_subject |-> ThreadSubject,
     custom_prompt |-> customPrompt,
     RAG |-> [reply |-> generatedReplies.full_context_reply,
              style_transfer |-> reply2Eval.style_transfer,
              content_preservation |-> reply2Eval.content_preservation,
              naturalness |-> reply2Eval.naturalness],
     noRAG |-> [reply |-> generatedReplies.thread_only_reply,
                style_transfer |-> reply1Eval.style_transfer,
                content_preservation |-> reply1Eval.content_preservation,
                naturalness |-> reply1Eval.naturalness]]

\* the EvaluationResult built by saveResults at clock reading ts
EvaluationResult(ts) ==
    [timestamp |-> ts,
     thread_subject |-> ThreadSubject,
     custom_prompt |-> customPrompt,
     RAG |-> [reply |-> generatedReplies.full_context_reply,
              style_transfer |-> reply1Eval.style_transfer,
              content_preservation |-> reply1Eval.content_preservation,
              naturalness |-> reply1Eval.naturalness],
     noRAG |-> [reply |-> generatedReplies.thread_only_reply,
                style_transfer |-> reply2Eval.style_transfer,
                content_preservation |-> reply2Eval.content_preservation,
                naturalness |-> reply2Eval.naturalness]]

\* saveResults, run at clock reading ts
saveResults(ts) ==
    IF generatedReplies = Null \/ ~canSaveResults
    THEN /\ alert' = "Please complete all evaluations for both replies before saving."
         /\ download' = Null
    ELSE /\ download' = [filename |-> <<"evaluation_", ts, ".json">>,
                         content |-> EvaluationResult(ts)]
         /\ alert' = "Evaluation results saved!"

\* the Save button: disabled={!canSaveResults()}
SaveDisabled == ~canSaveResults

\* a click on the Save button; a disabled button runs no handler
ClickSave(ts) ==
    /\ PanelsRendered
    /\ IF SaveDisabled
       THEN alert' = "" /\ download' = Null
       ELSE saveResults(ts)
    /\ saveClicked' = TRUE
    /\ UNCHANGED outsideGenerateReply
    /\ UNCHANGED <<props, customPrompt, generatedReplies, loading, evals, net>>

ReplyFields == {"full_context_reply", "thread_only_reply"}

\* -------------------------------------------------------- GeneratePage
\* handleChange of a field of the form (fields are disabled while isLoading)
handleChange(name, value) ==
    /\ ~isLoading
    /\ formData' = [formData EXCEPT ![name] = value]
    /\ IF generatedResponse # NoResponse \/ error # Null
         THEN generatedResponse' = NoResponse /\ error' = Null
         ELSE UNCHANGED <<generatedResponse, error>>
    /\ UNCHANGED <<isLoading, gpNet>>
    /\ UNCHANGED outsideGeneratePage

\* the payload handleSubmit builds from the form
payload ==
    [sender |-> formData.sender,
     receiver |-> formData.receiver,
     content |-> formData.incomingMail,
     custom_prompt |-> formData.customPrompt]

\* the form submits only when its required fields are filled in and the
\* submit button is enabled
SubmitDisabled ==
    \/ isLoading
    \/ formData.incomingMail = ""
    \/ formData.receiver = ""
    \/ formData.sender = ""

\* handleSubmit up to its await
handleSubmit ==
    /\ ~SubmitDisabled
    /\ isLoading' = TRUE
    /\ generatedResponse' = NoResponse
    /\ error' = Null
    /\ gpNet' = [st |-> "sent", body |-> payload, data |-> NoResponse]
    /\ UNCHANGED formData
    /\ UNCHANGED outsideGeneratePage

\* the service answers the request of GeneratePage with 200 and a body
GpRespond(data) ==
    /\ gpNet.st = "sent"
    /\ gpNet' = [gpNet EXCEPT !.st = "ok", !.data = data]
    /\ UNCHANGED <<formData, generatedResponse, isLoading, error>>
    /\ UNCHANGED outsideGeneratePage

\* non-OK status, or the fetch rejects
GpRespondError ==
    /\ gpNet.st = "sent"
    /\ gpNet' = [gpNet EXCEPT !.st = "failed"]
    /\ UNCHANGED <<formData, generatedResponse, isLoading, error>>
    /\ UNCHANGED outsideGeneratePage

\* handleSubmit after its await, response.ok
SubmitOk ==
    /\ gpNet.st = "ok"
    /\ generatedResponse' =
          IF gpNet.data = NoResponse THEN NoReplyContent ELSE gpNet.data
    /\ isLoading' = FALSE
    /\ gpNet' = GpIdle
    /\ UNCHANGED <<formData, error>>
    /\ UNCHANGED outsideGeneratePage

\* handleSubmit after its await, catch and finally
SubmitFailed ==
    /\ gpNet.st = "failed"
    /\ error' = [message |-> "Failed to generate email"]
    /\ isLoading' = FALSE
    /\ gpNet' = GpIdle
    /\ UNCHANGED <<formData, generatedResponse>>
    /\ UNCHANGED outsideGeneratePage

GeneratePageNext ==
    \/ \E name \in {"incomingMail"}, value \in MailTexts :
          handleChange(name, value)
    \/ \E name \in {"receiver", "sender"}, value \in Addresses :
          handleChange(name, value)
    \/ \E value \in Prompts : handleChange("customPrompt", value)
    \/ handleSubmit
    \/ \E data \in GpReplies : GpRespond(data)
    \/ GpRespondError
    \/ SubmitOk
    \/ SubmitFailed

GeneratePageSpec == Init /\ [][GeneratePageNext]_gpVars

\* ----------------------------------------------------- the thread list
\* a response body of GET emails/conversation arrives
ThreadListInit ==
    /\ GenerateReplyInit
    /\ GpInit
    /\ PageStateInit
    /\ UploadInit
    /\ PasswordIdle
    /\ RetrieverIdle
    /\ ReconstructIdle
    /\ conversationData \in
          {[body |-> data, filter |-> "none"] : data \in Conversations}

\* fetchEmails applied to the response body: the list it stores in emails
listThreads ==
    /\ conversationData.filter = "none"
    /\ conversationData' = [conversationData EXCEPT !.filter = "uniqueThreads"]
    /\ emails' = uniqueThreads(conversationData.body)
    /\ UNCHANGED outsideThreadList

\* the earlier fetchEmails applied to the response body
listNonReplies ==
    /\ conversationData.filter = "none"
    /\ conversationData' = [conversationData EXCEPT !.filter = "nonReply"]
    /\ emails' = nonReplyEmails(conversationData.body)
    /\ UNCHANGED outsideThreadList

ThreadListNext ==
    \/ listThreads
    \/ listNonReplies

ThreadListSpec ==
    ThreadListInit /\ [][ThreadListNext]_<<conversationData, emails>>

\* --------------------------------------------------------- EmailSearch
\* what the user can have typed into the field of EmailForm
MyEmails == {"", "me@x", "zed@x"}

EmailSearchInit ==
    /\ PageStateInit
    /\ myEmail = ""
    /\ selectedRecipient = ""
    /\ threadMessages = <<>>
    /\ alert = ""
    /\ customPrompt = <<>>
    /\ generatedReplies = Null
    /\ loading = FALSE
    /\ reply1Eval = EmptyEval
    /\ reply2Eval = EmptyEval
    /\ net = Idle
    /\ download = Null
    /\ saveClicked = FALSE
    /\ promptSent = <<>>
    /\ GpInit
    /\ ListInit
    /\ UploadInit
    /\ PasswordIdle
    /\ RetrieverIdle
    /\ ReconstructIdle

\* a fetch is added to, or taken from, a bag of outstanding fetches
Sent(reqs, req) == reqs (+) SetToBag({req})
Settled(reqs, req) == reqs (-) SetToBag({req})

\* the fetches the page can issue
RecipientsFetches == {[me |-> me] : me \in MyEmails \ {""}}
ConversationFetches ==
    {[me |-> me, recipient |-> r] :
        me \in MyEmails, r \in {m.sender : m \in Corpus}}
ThreadFetches == {[subject |-> m.subject] : m \in Corpus}

\* onChange of the field of EmailForm
setMyEmail(value) ==
    /\ value # myEmail
    /\ myEmail' = value
    /\ alert' = ""
    /\ UNCHANGED <<selectedRecipient, threadMessages, pageVars>>
    /\ UNCHANGED outsideEmailSearch

\* handleEmailSubmit up to its await; the button is disabled={loading}
handleEmailSubmit ==
    /\ ~loadingRecipients
    /\ IF myEmail = ""
         THEN /\ alert' = "Please enter your email address"
              /\ UNCHANGED <<selectedRecipient, threadMessages, pageVars>>
         ELSE /\ loadingRecipients' = TRUE
              /\ recipients' = <<>>
              /\ selectedRecipient' = ""
              /\ emails' = <<>>
              /\ selectedEmailId' = ""
              /\ threadMessages' = <<>>
              /\ recipientsReq' =
                    Sent(recipientsReq, [me |-> myEmail])
              /\ alert' = ""
              /\ UNCHANGED <<loadingEmails, loadingThread, conversationReqs,
                             threadReqs>>
    /\ UNCHANGED myEmail
    /\ UNCHANGED outsideEmailSearch

\* handleEmailSubmit after its await, response.ok
RecipientsOk(req) ==
    /\ req \in BagToSet(recipientsReq)
    /\ LET data == recipientsOf(req.me)
       IN  /\ recipients' = data
           /\ alert' = IF Len(data) = 0
                        THEN "No recipients found for this email address"
                        ELSE ""
    /\ loadingRecipients' = FALSE
    /\ recipientsReq' = Settled(recipientsReq, req)
    /\ UNCHANGED <<myEmail, selectedRecipient, threadMessages, emails,
                   selectedEmailId, loadingEmails, loadingThread,
                   conversationReqs, threadReqs>>
    /\ UNCHANGED outsideEmailSearch

\* handleEmailSubmit after its await, catch and finally
RecipientsFailed(req) ==
    /\ req \in BagToSet(recipientsReq)
    /\ alert' = "Error fetching recipients. Please try again."
    /\ loadingRecipients' = FALSE
    /\ recipientsReq' = Settled(recipientsReq, req)
    /\ UNCHANGED <<myEmail, selectedRecipient, threadMessages, recipients,
                   emails, selectedEmailId, loadingEmails, loadingThread,
                   conversationReqs, threadReqs>>
    /\ UNCHANGED outsideEmailSearch

\* the options of RecipientSelect, rendered while recipients is not empty
RecipientOptions ==
    IF Len(recipients) = 0 THEN {}
    ELSE {""} \cup {recipients[i].email : i \in DOMAIN recipients}

\* handleRecipientSelect with fetchEmails up to its await
handleRecipientSelect(recipient) ==
    /\ recipient \in RecipientOptions
    /\ recipient # selectedRecipient
    /\ selectedRecipient' = recipient
    /\ emails' = <<>>
    /\ selectedEmailId' = ""
    /\ threadMessages' = <<>>
    /\ alert' = ""
    /\ IF recipient # ""
         THEN /\ BagCardinality(conversationReqs) < MaxInFlight
              /\ loadingEmails' = TRUE
              /\ conversationReqs' =
                    Sent(conversationReqs,
                         [me |-> myEmail, recipient |-> recipient])
         ELSE UNCHANGED <<loadingEmails, conversationReqs>>
    /\ UNCHANGED <<myEmail, recipients, loadingRecipients, loadingThread,
                   recipientsReq, threadReqs>>
    /\ UNCHANGED outsideEmailSearch

\* fetchEmails after its await, response.ok
FetchEmailsOk(req) ==
    /\ req \in BagToSet(conversationReqs)
    /\ LET list == uniqueThreads(conversation(req.me, req.recipient))
       IN  /\ emails' = list
           /\ alert' = IF Len(list) = 0
                        THEN "No emails found in this conversation"
                        ELSE ""
    /\ loadingEmails' = FALSE
    /\ conversationReqs' = Settled(conversationReqs, req)
    /\ UNCHANGED <<myEmail, selectedRecipient, threadMessages, recipients,
                   selectedEmailId, loadingRecipients, loadingThread,
                   recipientsReq, threadReqs>>
    /\ UNCHANGED outsideEmailSearch

\* fetchEmails after its await, catch and finally
FetchEmailsFailed(req) ==
    /\ req \in BagToSet(conversationReqs)
    /\ alert' = "Error fetching emails. Please try again."
    /\ loadingEmails' = FALSE
    /\ conversationReqs' = Settled(conversationReqs, req)
    /\ UNCHANGED <<myEmail, selectedRecipient, threadMessages, recipients,
                   emails, selectedEmailId, loadingRecipients, loadingThread,
                   recipientsReq, threadReqs>>
    /\ UNCHANGED outsideEmailSearch

\* the options of ThreadSelect, rendered while a recipient is selected
ThreadOptions ==
    IF Len(recipients) = 0 \/ selectedRecipient = "" THEN {}
    ELSE {""} \cup {emails[i].message_id : i \in DOMAIN emails}

\* handleThreadSelect with fetchThread up to its await
handleThreadSelect(emailId) ==
    /\ emailId \in ThreadOptions
    /\ emailId # selectedEmailId
    /\ selectedEmailId' = emailId
    /\ threadMessages' = <<>>
    /\ alert' = ""
    /\ IF emailId # ""
         THEN LET selectedEmail ==
                      CHOOSE e \in {emails[i] : i \in DOMAIN emails} :
                          e.message_id = emailId
              IN  /\ BagCardinality(threadReqs) < MaxInFlight
                  /\ loadingThread' = TRUE
                  /\ threadReqs' =
                        Sent(threadReqs,
                             [subject |-> selectedEmail.subject])
         ELSE UNCHANGED <<loadingThread, threadReqs>>
    /\ UNCHANGED <<myEmail, selectedRecipient, recipients, emails,
                   loadingRecipients, loadingEmails, recipientsReq,
                   conversationReqs>>
    /\ UNCHANGED outsideEmailSearch

\* fetchThread after its await, with the array reversed
FetchThreadOk_reversed(req) ==
    /\ req \in BagToSet(threadReqs)
    /\ LET data == threadBySubject(req.subject)
       IN  /\ threadMessages' =
                 [i \in DOMAIN data |-> data[Len(data) + 1 - i]]
           /\ alert' = IF Len(data) = 0
                        THEN "No messages found in this thread"
                        ELSE ""
    /\ loadingThread' = FALSE
    /\ threadReqs' = Settled(threadReqs, req)
    /\ UNCHANGED <<myEmail, selectedRecipient, recipients, emails,
                   selectedEmailId, loadingRecipients, loadingEmails,
                   recipientsReq, conversationReqs>>
    /\ UNCHANGED outsideEmailSearch

\* fetchThread after its await, response.ok
FetchThreadOk(req) ==
    /\ req \in BagToSet(threadReqs)
    /\ LET data == threadBySubject(req.subject)
       IN  /\ threadMessages' = data
           /\ alert' = IF Len(data) = 0
                        THEN "No messages found in this thread"
                        ELSE ""
    /\ loadingThread' = FALSE
    /\ threadReqs' = Settled(threadReqs, req)
    /\ UNCHANGED <<myEmail, selectedRecipient, recipients, emails,
                   selectedEmailId, loadingRecipients, loadingEmails,
                   recipientsReq, conversationReqs>>
    /\ UNCHANGED outsideEmailSearch

\* fetchThread after its await, catch and finally
FetchThreadFailed(req) ==
    /\ req \in BagToSet(threadReqs)
    /\ alert' = "Error fetching thread. Please try again."
    /\ loadingThread' = FALSE
    /\ threadReqs' = Settled(threadReqs, req)
    /\ UNCHANGED <<myEmail, selectedRecipient, threadMessages, recipients,
                   emails, selectedEmailId, loadingRecipients, loadingEmails,
                   recipientsReq, conversationReqs>>
    /\ UNCHANGED outsideEmailSearch

EmailSearchNext ==
    \/ \E value \in MyEmails : setMyEmail(value)
    \/ handleEmailSubmit
    \/ \E req \in RecipientsFetches : RecipientsOk(req)
    \/ \E req \in RecipientsFetches : RecipientsFailed(req)
    \/ \E recipient \in {""} \cup {m.sender : m \in Corpus} :
          handleRecipientSelect(recipient)
    \/ \E req \in ConversationFetches : FetchEmailsOk(req)
    \/ \E req \in ConversationFetches : FetchEmailsFailed(req)
    \/ \E emailId \in {""} \cup {m.message_id : m \in Corpus} :
          handleThreadSelect(emailId)
    \/ \E req \in ThreadFetches : FetchThreadOk(req)
    \/ \E req \in ThreadFetches : FetchThreadFailed(req)

searchVars == <<myEmail, selectedRecipient, threadMessages, alert, pageVars>>

EmailSearchSpec == EmailSearchInit /\ [][EmailSearchNext]_searchVars

\* -------------------------------------------------------- EmailUploader
\* handleFileChange
handleFileChange(list) ==
    /\ files' = [list |-> list]
    /\ alert' = ""
    /\ UNCHANGED <<uploading, result, jobs, store, locks>>
    /\ UNCHANGED outsideUpload

\* the Upload button: disabled={uploading || !files}
UploadDisabled == uploading \/ files = Null

\* a batch as the service receives it
Batch(list) ==
    [st |-> "next", files |-> list, outcomes |-> <<>>, msg |-> Null,
     exists |-> FALSE]

\* handleUpload that appends only files[0] to the form data
handleUpload_firstFileOnly ==
    /\ ~UploadDisabled
    /\ IF Len(files.list) = 0
         THEN /\ alert' = "Please select .eml files first"
              /\ UNCHANGED <<uploading, result, jobs>>
         ELSE /\ uploading' = TRUE
              /\ result' = Null
              /\ jobs' = [jobs EXCEPT !["uploader"] = Batch(<<files.list[1]>>)]
              /\ alert' = ""
    /\ UNCHANGED <<files, store, locks>>
    /\ UNCHANGED outsideUpload

\* handleUpload up to its await
handleUpload ==
    /\ ~UploadDisabled
    /\ IF Len(files.list) = 0
         THEN /\ alert' = "Please select .eml files first"
              /\ UNCHANGED <<uploading, result, jobs>>
         ELSE /\ uploading' = TRUE
              /\ result' = Null
              /\ jobs' = [jobs EXCEPT !["uploader"] = Batch(files.list)]
              /\ alert' = ""
    /\ UNCHANGED <<files, store, locks>>
    /\ UNCHANGED outsideUpload

\* another client posts a file while the uploader may be busy
OtherUpload(file) ==
    /\ jobs["other"].st = "idle"
    /\ jobs' = [jobs EXCEPT !["other"] = Batch(<<file>>)]
    /\ UNCHANGED <<files, uploading, result, store, locks, alert>>
    /\ UNCHANGED outsideUpload

\* the file a batch is at, if any
Remaining(job) == Len(job.outcomes) < Len(job.files)
CurrentFile(job) == job.files[Len(job.outcomes) + 1]

Outcome(file, kind, id, detail) ==
    [filename |-> file, outcome |-> kind, message_id |-> id,
     detail |-> detail]

\* ParseError: the file is recorded as failed and the batch goes on
RejectFile(c) ==
    /\ jobs[c].st = "next"
    /\ Remaining(jobs[c])
    /\ Parse(CurrentFile(jobs[c])) = ParseError
    /\ jobs' = [jobs EXCEPT ![c].outcomes =
                   Append(@, Outcome(CurrentFile(jobs[c]), "failed", "",
                                     "ParseError"))]
    /\ UNCHANGED <<files, uploading, result, store, locks, alert>>
    /\ UNCHANGED outsideUpload

StoredIds == {store[i].message_id : i \in DOMAIN store}

\* ingest that looks the message up without serializing on its id
BeginIngest_unlocked(c) ==
    /\ jobs[c].st = "next"
    /\ Remaining(jobs[c])
    /\ Parse(CurrentFile(jobs[c])) # ParseError
    /\ LET m == Parse(CurrentFile(jobs[c]))
       IN  /\ locks' = locks \cup {m.message_id}
           /\ jobs' = [jobs EXCEPT ![c].st = "locked", ![c].msg = m,
                          ![c].exists = m.message_id \in StoredIds]
    /\ UNCHANGED <<files, uploading, result, store, alert>>
    /\ UNCHANGED outsideUpload

\* ingest, first half: writes are serialized per message id; the message is
\* looked up once its id is held
BeginIngest(c) ==
    /\ jobs[c].st = "next"
    /\ Remaining(jobs[c])
    /\ Parse(CurrentFile(jobs[c])) # ParseError
    /\ LET m == Parse(CurrentFile(jobs[c]))
       IN  /\ m.message_id \notin locks
           /\ locks' = locks \cup {m.message_id}
           /\ jobs' = [jobs EXCEPT ![c].st = "locked", ![c].msg = m,
                          ![c].exists = m.message_id \in StoredIds]
    /\ UNCHANGED <<files, uploading, result, store, alert>>
    /\ UNCHANGED outsideUpload

\* ingest that stores the message whether or not it is known
CompleteIngest_again(c) ==
    /\ jobs[c].st = "locked"
    /\ LET m == jobs[c].msg
       IN  /\ store' = Append(store, m)
           /\ jobs' = [jobs EXCEPT ![c].st = "next", ![c].msg = Null,
                          ![c].outcomes =
                              Append(@, Outcome(CurrentFile(jobs[c]), "success",
                                                m.message_id, m.subject))]
           /\ locks' = locks \ {m.message_id}
    /\ UNCHANGED <<files, uploading, result, alert>>
    /\ UNCHANGED outsideUpload

\* ingest, second half: a known message is a no-op reported as skipped, a
\* new one is stored whole
CompleteIngest(c) ==
    /\ jobs[c].st = "locked"
    /\ LET m == jobs[c].msg
       IN  /\ IF jobs[c].exists
                THEN /\ UNCHANGED store
                     /\ jobs' = [jobs EXCEPT ![c].st = "next",
                                    ![c].msg = Null,
                                    ![c].outcomes =
                                        Append(@, Outcome(CurrentFile(jobs[c]),
                                                          "skipped",
                                                          m.message_id,
                                                          "duplicate"))]
                ELSE /\ store' = Append(store, m)
                     /\ jobs' = [jobs EXCEPT ![c].st = "next",
                                    ![c].msg = Null,
                                    ![c].outcomes =
                                        Append(@, Outcome(CurrentFile(jobs[c]),
                                                          "success",
                                                          m.message_id,
                                                          m.subject))]
           /\ locks' = locks \ {m.message_id}
    /\ UNCHANGED <<files, uploading, result, alert>>
    /\ UNCHANGED outsideUpload

\* the outcomes of one kind, in file order
OutcomesOf(job, kind) ==
    SelectSeq(job.outcomes, LAMBDA o : o.outcome = kind)

\* the response body of POST upload-emails
UploadResponse(job) ==
    [total_files |-> Len(job.files),
     successful |-> Len(OutcomesOf(job, "success")),
     skipped |-> Len(OutcomesOf(job, "skipped")),
     failed |-> Len(OutcomesOf(job, "failed")),
     details |->
        [success |->
            [i \in DOMAIN OutcomesOf(job, "success") |->
                [filename |-> OutcomesOf(job, "success")[i].filename,
                 subject |-> OutcomesOf(job, "success")[i].detail]],
         failed |->
            [i \in DOMAIN OutcomesOf(job, "failed") |->
                [filename |-> OutcomesOf(job, "failed")[i].filename,
                 error |-> OutcomesOf(job, "failed")[i].detail]]]]

\* every file has its outcome: the service answers 200; the answer to the
\* other client is not followed
RespondUpload(c) ==
    /\ jobs[c].st = "next"
    /\ ~Remaining(jobs[c])
    /\ jobs' = [jobs EXCEPT ![c] =
                   IF c = "uploader" THEN [@ EXCEPT !.st = "done"] ELSE NoJob]
    /\ UNCHANGED <<files, uploading, result, store, locks, alert>>
    /\ UNCHANGED outsideUpload

\* the request of EmailUploader is answered with a non-OK status, or the
\* fetch rejects
UploadError ==
    /\ jobs["uploader"].st = "next"
    /\ jobs' = [jobs EXCEPT !["uploader"].st = "failed"]
    /\ UNCHANGED <<files, uploading, result, store, locks, alert>>
    /\ UNCHANGED outsideUpload

\* handleUpload after its await, response.ok
UploadOk ==
    /\ jobs["uploader"].st = "done"
    /\ result' = UploadResponse(jobs["uploader"])
    /\ files' = Null
    /\ uploading' = FALSE
    /\ jobs' = [jobs EXCEPT !["uploader"] = NoJob]
    /\ alert' = ""
    /\ UNCHANGED <<store, locks>>
    /\ UNCHANGED outsideUpload

\* handleUpload after its await, catch and finally
UploadFailed ==
    /\ jobs["uploader"].st = "failed"
    /\ alert' = "Error: Upload failed"
    /\ uploading' = FALSE
    /\ jobs' = [jobs EXCEPT !["uploader"] = NoJob]
    /\ UNCHANGED <<files, result, store, locks>>
    /\ UNCHANGED outsideUpload

UploadNext ==
    \/ \E list \in FileLists : handleFileChange(list)
    \/ handleUpload
    \/ \E file \in OtherFiles : OtherUpload(file)
    \/ \E c \in Clients : RejectFile(c)
    \/ \E c \in Clients : BeginIngest(c)
    \/ \E c \in Clients : CompleteIngest(c)
    \/ \E c \in Clients : RespondUpload(c)
    \/ UploadError
    \/ UploadOk
    \/ UploadFailed

UploadSpec == Init /\ [][UploadNext]_<<uploadVars, alert>>

\* ------------------------------------------------------------ Retriever
\* retrieve is called with a counterpart, a k and the corpus as it is
RetrieverInit ==
    /\ GenerateReplyInit
    /\ GpInit
    /\ PageStateInit
    /\ ListInit
    /\ UploadInit
    /\ PasswordIdle
    /\ history \in Histories
    /\ counterpart \in {"bob@x", "carol@x"}
    /\ topK \in 0..MaxK
    /\ retrievalResult = Null
    /\ ReconstructIdle

\* candidate pool: the messages exchanged with the counterpart, without the
\* message being replied to; nothing was exchanged with carol@x
Pool ==
    IF counterpart = "bob@x" THEN DOMAIN history \ {ReplyingTo} ELSE {}

\* ranking with ties by sent_at ascending
Outranks_oldestFirst(id1, id2) ==
    \/ history[id1].score > history[id2].score
    \/ /\ history[id1].score = history[id2].score
       /\ history[id1].sent_at < history[id2].sent_at

\* ranking: descending similarity, ties by sent_at descending
Outranks(id1, id2) ==
    \/ history[id1].score > history[id2].score
    \/ /\ history[id1].score = history[id2].score
       /\ history[id1].sent_at > history[id2].sent_at

\* the candidates in ranking order; candidates equal in score and date are
\* taken in any one order
RECURSIVE ranked(_)
ranked(ids) ==
    IF ids = {} THEN <<>>
    ELSE LET best == CHOOSE id \in ids :
                         \A other \in ids : ~Outranks(other, id)
         IN  <<best>> \o ranked(ids \ {best})

\* the first k of a ranking that returns the whole ranking
firstK_all(seq, k) == seq

\* the first k of a ranking, or all of it when it is shorter
firstK(seq, k) == SubSeq(seq, 1, IF k < Len(seq) THEN k ELSE Len(seq))

\* retrieve(myEmail, counterpartEmail, queryText, k)
retrieve ==
    /\ retrievalResult = Null
    /\ retrievalResult' =
          IF topK <= 0 THEN [error |-> "InvalidArgument"]
          ELSE [results |-> firstK(ranked(Pool), topK)]
    /\ UNCHANGED <<history, counterpart, topK>>
    /\ UNCHANGED outsideRetriever

RetrieverNext == retrieve

RetrieverSpec == RetrieverInit /\ [][RetrieverNext]_retrieverVars

\* --------------------------------------------------- Thread Reconstructor
\* a run starts on messages with any parent references, cyclic ones too
ReconstructInit ==
    /\ GenerateReplyInit
    /\ GpInit
    /\ PageStateInit
    /\ ListInit
    /\ UploadInit
    /\ PasswordIdle
    /\ RetrieverIdle
    /\ parentOf \in [Msgs -> {NoParent} \cup Msgs]
    /\ path = <<>>
    /\ threadKey = [m \in Msgs |-> 0]
    /\ phase = "pick"

Visited == {path[i] : i \in DOMAIN path}

Lowest(ids) == CHOOSE id \in ids : \A other \in ids : id <= other

\* the next message without a thread is placed, lowest id first
PickMessage ==
    /\ phase = "pick"
    /\ \E m \in Msgs : threadKey[m] = 0
    /\ path' = <<Lowest({m \in Msgs : threadKey[m] = 0})>>
    /\ phase' = "climb"
    /\ UNCHANGED <<parentOf, threadKey>>
    /\ UNCHANGED outsideReconstruct

\* traversal that follows the parent reference without a visited-set
Climb_unguarded ==
    /\ phase = "climb"
    /\ Len(path) <= MaxMsgs
    /\ parentOf[path[Len(path)]] # NoParent
    /\ path' = Append(path, parentOf[path[Len(path)]])
    /\ UNCHANGED <<parentOf, threadKey, phase>>
    /\ UNCHANGED outsideReconstruct

\* traversal: the parent reference is followed to a message not yet visited
Climb ==
    /\ phase = "climb"
    /\ parentOf[path[Len(path)]] # NoParent
    /\ parentOf[path[Len(path)]] \notin Visited
    /\ path' = Append(path, parentOf[path[Len(path)]])
    /\ UNCHANGED <<parentOf, threadKey, phase>>
    /\ UNCHANGED outsideReconstruct

\* the traversal reached a message without parent: it is the root
FoundRoot ==
    /\ phase = "climb"
    /\ parentOf[path[Len(path)]] = NoParent
    /\ threadKey' = [threadKey EXCEPT ![path[1]] = path[Len(path)]]
    /\ path' = <<>>
    /\ phase' = "pick"
    /\ UNCHANGED parentOf
    /\ UNCHANGED outsideReconstruct

\* the traversal reached a message it has visited: the messages from
\* there on form a cycle, and its lowest id is taken as the earliest
FoundCycle ==
    /\ phase = "climb"
    /\ parentOf[path[Len(path)]] \in Visited
    /\ LET back == parentOf[path[Len(path)]]
           from == CHOOSE i \in DOMAIN path : path[i] = back
           cycle == {path[i] : i \in from..Len(path)}
       IN  threadKey' = [threadKey EXCEPT ![path[1]] = Lowest(cycle)]
    /\ path' = <<>>
    /\ phase' = "pick"
    /\ UNCHANGED parentOf
    /\ UNCHANGED outsideReconstruct

\* every message has its thread
FinishReconstruct ==
    /\ phase = "pick"
    /\ \A m \in Msgs : threadKey[m] # 0
    /\ phase' = "done"
    /\ UNCHANGED <<parentOf, path, threadKey>>
    /\ UNCHANGED outsideReconstruct

ReconstructNext ==
    \/ PickMessage
    \/ Climb
    \/ FoundRoot
    \/ FoundCycle
    \/ FinishReconstruct

\* the run is sequential code: it goes on while it can
ReconstructSpec ==
    /\ ReconstructInit
    /\ [][ReconstructNext]_reconstructVars
    /\ WF_reconstructVars(ReconstructNext)

\* ------------------------------------------------------ the password gate
\* everything that is not state of PasswordForm or of the route
outsidePassword ==
    <<vars, gpVars, pageVars, listVars, uploadVars, retrieverVars,
      reconstructVars, promptSent>>

\* the route is loaded with any configuration, the form is rendered
PasswordInit ==
    /\ GenerateReplyInit
    /\ GpInit
    /\ PageStateInit
    /\ ListInit
    /\ UploadInit
    /\ RetrieverIdle
    /\ ReconstructIdle
    /\ CORRECT_PASSWORD \in Configured
    /\ PasswordFormInit

\* !value
Falsy(value) ==
    \/ value.t \in {"undefined", "null"}
    \/ value = JsValue("string", "")
    \/ value = JsValue("number", "0")

\* a === b: the same type and the same value
StrictEquals(a, b) == a.t = b.t /\ a.v = b.v

\* NextResponse.json({ success, message }, { status })
JsonResponse(success, message, status) ==
    [success |-> success, message |-> message, status |-> status]

\* POST without the check of !password
POST_noRequiredCheck(body) ==
    IF ~body.readable
    THEN JsonResponse(FALSE, "Internal Server Error", 500)
    ELSE IF StrictEquals(body.password, CORRECT_PASSWORD)
    THEN JsonResponse(TRUE, "Access granted", 200)
    ELSE JsonResponse(FALSE, "Incorrect password", 401)

\* POST api/check-password: the response to a request with this body
POST(body) ==
    IF ~body.readable
    THEN JsonResponse(FALSE, "Internal Server Error", 500)
    ELSE IF Falsy(body.password)
    THEN JsonResponse(FALSE, "Password is required", 400)
    ELSE IF StrictEquals(body.password, CORRECT_PASSWORD)
    THEN JsonResponse(TRUE, "Access granted", 200)
    ELSE JsonResponse(FALSE, "Incorrect password", 401)

\* the form is on the page and its input and button are not disabled
FormEnabled == location = "/" /\ ~pfLoading

\* onChange of the password input
setPassword(value) ==
    /\ FormEnabled
    /\ password' = value
    /\ UNCHANGED <<CORRECT_PASSWORD, pfError, pfLoading, pfNet, location,
                   posted>>
    /\ UNCHANGED outsidePassword

\* PasswordForm.handleSubmit up to the await of fetch; the input is
\* required, so the browser submits the form only with a password typed in
PasswordSubmit ==
    /\ FormEnabled
    /\ password # ""
    /\ pfError' = ""
    /\ pfLoading' = TRUE
    /\ pfNet' = [st |-> "sent",
                 body |-> [readable |-> TRUE, password |-> JsValue("string", password)],
                 response |-> Null]
    /\ UNCHANGED <<CORRECT_PASSWORD, password, location, posted>>
    /\ UNCHANGED outsidePassword

\* the route handles the request of the form
HandlePost ==
    /\ pfNet.st = "sent"
    /\ pfNet' = [pfNet EXCEPT !.st = "answered", !.response = POST(pfNet.body)]
    /\ posted' = [body |-> pfNet.body, response |-> POST(pfNet.body)]
    /\ UNCHANGED <<CORRECT_PASSWORD, password, pfError, pfLoading, location>>
    /\ UNCHANGED outsidePassword

\* the request of the form or its response is lost: fetch rejects
PostRejected ==
    /\ pfNet.st = "sent"
    /\ pfNet' = [pfNet EXCEPT !.st = "rejected"]
    /\ UNCHANGED <<CORRECT_PASSWORD, password, pfError, pfLoading, location,
                   posted>>
    /\ UNCHANGED outsidePassword

\* PasswordForm.handleSubmit after the awaits: data.success or not, finally
PasswordAnswered ==
    /\ pfNet.st = "answered"
    /\ IF pfNet.response.success
       THEN /\ location' = "/add-email"
            /\ UNCHANGED pfError
       ELSE /\ pfError' = IF pfNet.response.message = "" THEN "Login failed."
                          ELSE pfNet.response.message
            /\ UNCHANGED location
    /\ pfLoading' = FALSE
    /\ pfNet' = NoFetch
    /\ UNCHANGED <<CORRECT_PASSWORD, password, posted>>
    /\ UNCHANGED outsidePassword

\* PasswordForm.handleSubmit, catch and finally
PasswordFailed ==
    /\ pfNet.st = "rejected"
    /\ pfError' = "An error occurred during login."
    /\ pfLoading' = FALSE
    /\ pfNet' = NoFetch
    /\ UNCHANGED <<CORRECT_PASSWORD, password, location, posted>>
    /\ UNCHANGED outsidePassword

\* the root page is opened again: PasswordForm is rendered anew
OpenRoot ==
    /\ location # "/"
    /\ location' = "/"
    /\ password' = ""
    /\ pfError' = ""
    /\ pfLoading' = FALSE
    /\ pfNet' = NoFetch
    /\ UNCHANGED <<CORRECT_PASSWORD, posted>>
    /\ UNCHANGED outsidePassword

\* any client posts any body to the route
DirectPost(body) ==
    /\ posted' = [body |-> body, response |-> POST(body)]
    /\ UNCHANGED <<CORRECT_PASSWORD, password, pfError, pfLoading, pfNet,
                   location>>
    /\ UNCHANGED outsidePassword

PasswordNext ==
    \/ \E value \in Passwords : setPassword(value)
    \/ PasswordSubmit
    \/ HandlePost
    \/ PostRejected
    \/ PasswordAnswered
    \/ PasswordFailed
    \/ OpenRoot
    \/ \E body \in Bodies : DirectPost(body)

PasswordSpec == PasswordInit /\ [][PasswordNext]_passwordVars

Next ==
    \/ \E t \in Threads : setThreadMessages(t)
    \/ clearThreadMessages
    \/ \E p \in Prompts : setCustomPrompt(p)
    \/ handleGenerate
    \/ \E field \in ReplyFields, g \in 1..MaxGen :
          GenerateVariant(field, <<VariantOf[field], g>>)
    \/ \E field \in ReplyFields : VariantFails(field)
    \/ RespondPair
    \/ RespondError
    \/ NetworkError
    \/ GenerateOk
    \/ GenerateFailed
    \/ \E panel \in {1, 2}, val \in StyleButtons : StyleTransferClick(panel, val)
    \/ \E panel \in {1, 2}, val \in BinaryButtons,
          field \in {"content_preservation", "naturalness"} :
            BinaryClick(panel, field, val)
    \/ \E ts \in 1..MaxTime : ClickSave(ts)

Spec == Init /\ [][Next]_vars

\* the continuation of handleGenerate runs once the fetch has settled; the
\* generation service and the network are under no obligation to answer
FairSpec == Spec /\ WF_vars(GenerateOk) /\ WF_vars(GenerateFailed)

\* ------------------------------------- GenerateReply with the prompt sent
\* GenerateOk, with the custom_prompt of the answered request kept beside
\* the replies it produced
GenerateOkRecorded ==
    /\ GenerateOkStep
    /\ promptSent' = net.body.custom_prompt

RecordNext ==
    \/ \E t \in Threads : setThreadMessages(t)
    \/ clearThreadMessages
    \/ \E p \in Prompts : setCustomPrompt(p)
    \/ handleGenerate
    \/ \E field \in ReplyFields, g \in 1..MaxGen :
          GenerateVariant(field, <<VariantOf[field], g>>)
    \/ \E field \in ReplyFields : VariantFails(field)
    \/ RespondPair
    \/ RespondError
    \/ NetworkError
    \/ GenerateOkRecorded
    \/ GenerateFailed
    \/ \E panel \in {1, 2}, val \in StyleButtons : StyleTransferClick(panel, val)
    \/ \E panel \in {1, 2}, val \in BinaryButtons,
          field \in {"content_preservation", "naturalness"} :
            BinaryClick(panel, field, val)
    \/ \E ts \in 1..MaxTime : ClickSave(ts)

RecordSpec == Init /\ [][RecordNext]_<<vars, promptSent>>

TypeOK ==
    /\ threadMessages \in Threads \cup {<<>>}
    /\ customPrompt \in Prompts
    /\ generatedReplies \in ReplyPairs \cup {Null}
    /\ loading \in BOOLEAN
    /\ net.st \in {"idle", "pending", "ok", "bad", "neterr"}
    /\ saveClicked \in BOOLEAN

\* ------------------------------------------------------------ properties
ScoreFields == {"style_transfer", "content_preservation", "naturalness"}

\* the file of the latest step holds an exported evaluation record
Exported == download # Null

\* C1: an evaluation record is exported only when a reply pair exists and all
\* six scores are set; no exported record carries an unset score.
C1_NoPartialRecord ==
    Exported =>
        /\ generatedReplies # Null
        /\ \A f \in ScoreFields :
              /\ reply1Eval[f] # Unset
              /\ reply2Eval[f] # Unset
              /\ download.content.RAG[f] # Unset
              /\ download.content.noRAG[f] # Unset

C1_Witness ==
    /\ Exported
    /\ saveClicked
    /\ \A f \in ScoreFields :
          download.content.RAG[f] # Unset /\ download.content.noRAG[f] # Unset

\* some score of the six is unset
SomeUnset ==
    \E f \in ScoreFields : reply1Eval[f] = Unset \/ reply2Eval[f] = Unset

\* C2: a save attempted while a score is unset or no replies exist changes
\* nothing (replies, custom prompt and scores are kept, no record is
\* exported), and every score button stays available, as does the save once
\* all six scores are set.
C2_RejectedSaveKeepsState ==
    /\ [][ (saveClicked' /\ (generatedReplies = Null \/ SomeUnset))
           => /\ UNCHANGED <<generatedReplies, customPrompt, reply1Eval,
                             reply2Eval, threadMessages>>
              /\ download' = Null ]_vars
    /\ [](PanelsRendered =>
            /\ \A panel \in {1, 2}, val \in StyleButtons :
                  ENABLED StyleTransferClick(panel, val)
            /\ \A panel \in {1, 2}, val \in BinaryButtons,
                  field \in {"content_preservation", "naturalness"} :
                  ENABLED BinaryClick(panel, field, val)
            /\ (~SomeUnset => ENABLED (ClickSave(1) /\ download' # Null)))

C2_Witness ==
    /\ saveClicked
    /\ SomeUnset
    /\ ~Exported
    /\ reply1Eval.style_transfer # Unset
    /\ reply2Eval.naturalness # Unset
    /\ generatedReplies # Null

BinaryFields == {"content_preservation", "naturalness"}

\* the scores of evalData are unset or values of their scales
ScoresInRange(evalData) ==
    /\ evalData.style_transfer \in {Unset} \cup (1..5)
    /\ \A f \in BinaryFields : evalData[f] \in {Unset, 0, 1}

\* C4: every style_transfer score is unset or in 1..5 and every
\* content_preservation and naturalness score is unset or 0 or 1; an
\* exported record carries style_transfer in 1..5 and binary scores in {0,1}
\* for both variants.
C4_ScoresInRange ==
    /\ ScoresInRange(reply1Eval)
    /\ ScoresInRange(reply2Eval)
    /\ Exported =>
          \A variant \in {"RAG", "noRAG"} :
             /\ download.content[variant].style_transfer \in 1..5
             /\ \A f \in BinaryFields :
                   download.content[variant][f] \in {0, 1}

C4_Witness ==
    /\ Exported
    /\ download.content.RAG.style_transfer = 5
    /\ download.content.noRAG.style_transfer = 1
    /\ download.content.RAG.content_preservation = 0
    /\ download.content.noRAG.naturalness = 1

\* C5: an exported record holds exactly timestamp, thread subject, custom
\* prompt and the two scored variants; RAG has the full-context reply with
\* the three scores of Reply 1 and noRAG has the thread-only reply with the
\* three scores of Reply 2.
C5_RecordContents ==
    Exported =>
        LET r == download.content IN
        /\ DOMAIN r = {"timestamp", "thread_subject", "custom_prompt", "RAG",
                       "noRAG"}
        /\ r.timestamp \in 1..MaxTime
        /\ r.thread_subject \in {"Meeting", "Unknown Subject"}
        /\ Len(threadMessages) > 0
        /\ threadMessages[1].subject # "" => r.thread_subject = threadMessages[1].subject
        /\ r.custom_prompt = customPrompt
        /\ DOMAIN r.RAG = {"reply"} \cup ScoreFields
        /\ DOMAIN r.noRAG = {"reply"} \cup ScoreFields
        /\ r.RAG.reply = generatedReplies.full_context_reply
        /\ r.RAG.reply[1] = "withContext"
        /\ r.noRAG.reply = generatedReplies.thread_only_reply
        /\ r.noRAG.reply[1] = "contextFree"
        /\ \A f \in ScoreFields :
              r.RAG[f] = reply1Eval[f] /\ r.noRAG[f] = reply2Eval[f]

C5_Witness ==
    /\ Exported
    /\ download.content.RAG.style_transfer # download.content.noRAG.style_transfer
    /\ download.content.RAG.naturalness # download.content.noRAG.naturalness
    /\ download.content.RAG.reply[2] # download.content.noRAG.reply[2]
    /\ download.content.custom_prompt # <<>>
    /\ download.content.thread_subject = "Meeting"

\* C6: either both replies are available or neither is.
C6_RepliesArePair ==
    \/ generatedReplies = Null
    \/ /\ DOMAIN generatedReplies = ReplyFields
       /\ generatedReplies.full_context_reply \in ReplyTexts("withContext")
       /\ generatedReplies.thread_only_reply \in ReplyTexts("contextFree")

C6_Witness ==
    /\ generatedReplies # Null
    /\ ~loading
    /\ generatedReplies.full_context_reply = <<"withContext", 1>>
    /\ generatedReplies.thread_only_reply = <<"contextFree", 2>>

ErrorAlert == "Error generating reply. Please try again."

\* C7: a request is sent only by a click on the enabled Generate button, one
\* per click; when the request fails the error is reported, loading is
\* cleared, no replies are shown and no request is sent again.
C7_FailureSurfacedNoRetry ==
    [][ /\ (net'.st = "pending" /\ net.st # "pending")
              => (~loading /\ loading' /\ net.st = "idle" /\ Mounted)
        /\ (net.st = "pending" /\ net'.st = "pending") => net'.body = net.body
        /\ (net.st \in {"bad", "neterr"} /\ net' # net /\ Mounted')
              => /\ alert' = ErrorAlert
                 /\ ~loading'
                 /\ generatedReplies' = Null
                 /\ net' = Idle ]_vars

C7_Witness ==
    /\ alert = ErrorAlert
    /\ ~loading
    /\ generatedReplies = Null
    /\ net = Idle
    /\ Mounted

\* C8: when the generation of one variant fails, the reply of the other
\* variant, if it was obtained, remains available to the caller.
C8_SiblingReplyAvailable ==
    [][ (net.st = "bad" /\ alert' = ErrorAlert)
          => \A field \in ReplyFields :
                net[field] \in ReplyTexts(VariantOf[field])
                   => /\ generatedReplies' # Null
                      /\ generatedReplies'[field] = net[field] ]_vars

\* C9: every generate request ends; the loading state entered at a click on
\* Generate is eventually cleared, also when the service never answers.
C9_LoadingEventuallyCleared == loading ~> ~loading

\* C10: a click on Generate sends a request built from the thread messages
\* and custom prompt of that moment and discards the replies shown; the
\* replies shown when the request completes are those of its response.
C10_NoCachedReplies ==
    [][ /\ (loading' /\ ~loading)
              => /\ generatedReplies' = Null
                 /\ net'.st = "pending"
                 /\ net'.body.custom_prompt = customPrompt
                 /\ net'.body.thread_messages = threadMessages
                 /\ net'.body.content = threadMessages[Len(threadMessages)].content
        /\ (generatedReplies' # Null /\ generatedReplies' # generatedReplies)
              => (net.st = "ok" /\ generatedReplies' = net.data /\ net' = Idle)
        /\ loading => generatedReplies = Null ]_vars

C10_Witness ==
    /\ loading
    /\ net.st = "ok"
    /\ net.body.custom_prompt # <<>>
    /\ net.body.content = "c3"
    /\ generatedReplies = Null

\* C11: every POST api/generate the front end issues carries sender,
\* receiver, content, custom_prompt and thread_messages; thread_messages is
\* not empty, content is the content of its last message and custom_prompt
\* is the instruction the user typed.  body is a request body, prompt the
\* instruction in the form it was sent from.
WellFormedGenerate(body, prompt) ==
    /\ DOMAIN body = {"sender", "receiver", "content", "custom_prompt",
                      "thread_messages"}
    /\ Len(body.thread_messages) > 0
    /\ body.content = body.thread_messages[Len(body.thread_messages)].content
    /\ body.custom_prompt = prompt

C11_RequestsWellFormed ==
    [][ /\ (net.body = Null /\ net'.body # Null)
              => WellFormedGenerate(net'.body, customPrompt)
        /\ (gpNet.body = Null /\ gpNet'.body # Null)
              => WellFormedGenerate(gpNet'.body, formData.customPrompt)
      ]_<<vars, gpVars>>


\* position of the first message of data with normalized subject n
FirstWith(data, n) ==
    CHOOSE i \in DOMAIN data :
        /\ NormalizedSubject(data[i].subject) = n
        /\ \A j \in 1..(i - 1) : NormalizedSubject(data[j].subject) # n

\* C12: the thread list holds exactly one entry per normalized subject of
\* the conversation, namely the first message with that normalized subject
\* in conversation order.
C12_OneEntryPerNormalizedSubject ==
    (conversationData # Null /\ conversationData.filter # "none") =>
        LET data == conversationData.body
            norms == {NormalizedSubject(data[i].subject) : i \in DOMAIN data}
        IN  /\ Len(emails) = Cardinality(norms)
            /\ \A n \in norms :
                  \E k \in DOMAIN emails : emails[k] = data[FirstWith(data, n)]


\* what the page holds from the queries that succeeded earlier
QueryResults ==
    <<recipients, selectedRecipient, emails, selectedEmailId, threadMessages>>

\* no fetch is issued by the step
NoFetchIssued ==
    /\ recipientsReq' \sqsubseteq recipientsReq
    /\ conversationReqs' \sqsubseteq conversationReqs
    /\ threadReqs' \sqsubseteq threadReqs

\* the step handles a recipients, conversation or thread query that failed
\* or found nothing
RecipientsQueryFails ==
    \E req \in RecipientsFetches :
        \/ RecipientsFailed(req)
        \/ RecipientsOk(req) /\ Len(recipientsOf(req.me)) = 0

ConversationQueryFails ==
    \E req \in ConversationFetches :
        \/ FetchEmailsFailed(req)
        \/ FetchEmailsOk(req) /\ Len(conversation(req.me, req.recipient)) = 0

ThreadQueryFails ==
    \E req \in ThreadFetches :
        \/ FetchThreadFailed(req)
        \/ FetchThreadOk(req) /\ Len(threadBySubject(req.subject)) = 0

\* C13: a recipients, conversation or thread query that fails or finds
\* nothing is reported with an alert, clears its loading flag, issues no
\* other fetch, and leaves the recipient list, the selected recipient, the
\* conversation list, the selected thread and its messages as they were.
C13_FailedQueryAbortsOnlyItself ==
    [][ /\ RecipientsQueryFails =>
              /\ alert' # ""
              /\ ~loadingRecipients'
              /\ NoFetchIssued
              /\ UNCHANGED QueryResults
        /\ ConversationQueryFails =>
              /\ alert' # ""
              /\ ~loadingEmails'
              /\ NoFetchIssued
              /\ UNCHANGED QueryResults
        /\ ThreadQueryFails =>
              /\ alert' # ""
              /\ ~loadingThread'
              /\ NoFetchIssued
              /\ UNCHANGED QueryResults
      ]_searchVars


\* sent_at ascending with the messages that lack sent_at last
Chronological(msgs) ==
    \A i \in 1..(Len(msgs) - 1) :
        \/ msgs[i + 1].sent_at = NoDate
        \/ msgs[i].sent_at # NoDate /\ msgs[i].sent_at <= msgs[i + 1].sent_at

\* the threads of the corpus
CorpusThreads == {threadBySubject(m.subject) : m \in Corpus}

Members(msgs) == {msgs[i] : i \in DOMAIN msgs}

\* C17: the thread the page holds, displays and hands to GenerateReply is
\* the whole thread of its normalized subject, in the order sent_at
\* ascending with undated messages last; the request built from it carries
\* it in that order and replies to its last element; every message of the
\* corpus is in exactly one thread.
C17_ThreadChronological ==
    /\ Chronological(threadMessages)
    /\ Len(threadMessages) > 0 =>
          /\ Members(threadMessages) =
                {m \in Corpus : NormalizedSubject(m.subject) =
                                 NormalizedSubject(threadMessages[1].subject)}
          /\ RequestBody.thread_messages = threadMessages
          /\ RequestBody.content =
                threadMessages[Len(threadMessages)].content
    /\ \A m \in Corpus :
          Cardinality({t \in CorpusThreads : m \in Members(t)}) = 1

\* the thread of "Meeting" is shown with its undated reply last
C17_Witness ==
    /\ Len(threadMessages) = 3
    /\ threadMessages[1].subject = <<"Meeting">>
    /\ threadMessages[2].subject = <<"Re:", " ", "Meeting">>
    /\ threadMessages[2].sent_at = 2
    /\ threadMessages[3].sent_at = NoDate
    /\ selectedEmailId = "p1"
    /\ ~loadingThread


\* the count recipientsOf(address) reports for a counterpart
CountFor(address, other) ==
    Cardinality({i \in DOMAIN store :
                    {store[i].sender, store[i].receiver} = {address, other}})

LastOutcome(job) == job.outcomes[Len(job.outcomes)]

\* C14: ingesting a message that is already stored leaves the store as it
\* is, is reported as skipped (duplicate) under the id the message is
\* stored with, and recipientsOf counts every stored message of a pair
\* once.
C14_IngestIdempotent ==
    /\ [](CountFor("alice@x", "bob@x") =
            Cardinality({id \in StoredIds :
                \E f \in UploaderFiles \cup OtherFiles :
                    /\ Parse(f) # ParseError
                    /\ Parse(f).message_id = id}))
    /\ [][ \A c \in Clients :
             ( /\ jobs[c].st = "locked"
               /\ jobs'[c].st = "next"
               /\ jobs[c].msg.message_id \in StoredIds )
             => /\ store' = store
                /\ LastOutcome(jobs'[c]).outcome = "skipped"
                /\ LastOutcome(jobs'[c]).detail = "duplicate"
                /\ LastOutcome(jobs'[c]).message_id = jobs[c].msg.message_id
          ]_<<uploadVars, alert>>

\* the same file uploaded twice in one batch: stored once, skipped once
C14_Witness ==
    /\ result # Null
    /\ result.total_files = 2
    /\ result.successful = 1
    /\ result.skipped = 1
    /\ "ma" \in StoredIds
    /\ CountFor("alice@x", "bob@x") = 1

\* C15: whatever the interleaving of the clients, no two records of the
\* store have the same message id, every message whose ingestion has
\* ended has its record, and two ingestions in progress at the same time
\* are of different messages.
C15_OneRecordPerMessage ==
    /\ \A i, j \in DOMAIN store :
          i # j => store[i].message_id # store[j].message_id
    /\ \A c \in Clients : \A k \in DOMAIN jobs[c].outcomes :
          jobs[c].outcomes[k].outcome \in {"success", "skipped"}
              => jobs[c].outcomes[k].message_id \in StoredIds
    /\ (jobs["uploader"].st = "locked" /\ jobs["other"].st = "locked")
          => jobs["uploader"].msg.message_id # jobs["other"].msg.message_id

\* both clients are ingesting the same new message: one holds its id, the
\* other waits
C15_Witness ==
    /\ jobs["uploader"].st = "locked"
    /\ ~jobs["uploader"].exists
    /\ jobs["other"].st = "next"
    /\ Remaining(jobs["other"])
    /\ Parse(CurrentFile(jobs["other"])).message_id =
          jobs["uploader"].msg.message_id

\* C16: the batch the service ingests is the FileList that was uploaded;
\* when it answers, every file has exactly one outcome, every file that
\* parses is stored even after a file that failed, and the counts shown by
\* EmailUploader add up to total_files.
C16_BatchOutcomes ==
    /\ [][ (~uploading /\ uploading')
             => jobs'["uploader"].files = files.list ]_<<uploadVars, alert>>
    /\ [](jobs["uploader"].st = "done" =>
            LET job == jobs["uploader"]
            IN  /\ Len(job.outcomes) = Len(job.files)
                /\ \A k \in DOMAIN job.files :
                      /\ job.outcomes[k].filename = job.files[k]
                      /\ job.outcomes[k].outcome \in
                            {"success", "skipped", "failed"}
                      /\ Parse(job.files[k]) # ParseError
                            => Parse(job.files[k]).message_id \in StoredIds)
    /\ [](result # Null =>
            /\ result.successful + result.skipped + result.failed
                  = result.total_files
            /\ Len(result.details.success) = result.successful
            /\ Len(result.details.failed) = result.failed)

\* a batch whose first file fails and whose second file is ingested
C16_Witness ==
    /\ jobs["uploader"].st = "done"
    /\ jobs["uploader"].files = <<"bad.eml", "a.eml">>
    /\ jobs["uploader"].outcomes[1].outcome = "failed"
    /\ jobs["uploader"].outcomes[2].outcome \in {"success", "skipped"}
    /\ "ma" \in StoredIds


\* retrieve has returned results
Retrieved == retrievalResult # Null /\ "results" \in DOMAIN retrievalResult

\* C18: a retrieval with positive k returns results, never an error: at
\* most k of them, exactly the smaller of k and the size of the pool, all
\* different messages of the pool, and none when nothing was exchanged with
\* the counterpart.
C18_RetrievalBound ==
    (retrievalResult # Null /\ topK > 0) =>
        /\ Retrieved
        /\ LET results == retrievalResult.results
           IN  /\ Len(results) <= topK
               /\ Len(results) =
                     IF topK < Cardinality(Pool) THEN topK
                     ELSE Cardinality(Pool)
               /\ \A i \in DOMAIN results : results[i] \in Pool
               /\ \A i, j \in DOMAIN results :
                     i # j => results[i] # results[j]
               /\ Pool = {} => results = <<>>

\* k larger than a pool of three messages: three results
C18_Witness ==
    /\ Retrieved
    /\ topK = 4
    /\ Cardinality(Pool) = 3
    /\ Len(retrievalResult.results) = 3

\* C19: in the results a candidate never comes after one with a lower
\* score, candidates with equal scores come most recent first, and no
\* candidate left out has a higher score than one returned.
C19_RetrievalRanking ==
    Retrieved =>
        LET results == retrievalResult.results
        IN  /\ \A i, j \in DOMAIN results :
                  i < j =>
                    /\ history[results[i]].score >= history[results[j]].score
                    /\ history[results[i]].score = history[results[j]].score
                          => history[results[i]].sent_at
                               >= history[results[j]].sent_at
            /\ \A id \in Pool : \A i \in DOMAIN results :
                  (\A j \in DOMAIN results : results[j] # id)
                      => history[id].score <= history[results[i]].score

\* two candidates with equal scores and different dates are returned after
\* a candidate with a higher score
C19_Witness ==
    /\ Retrieved
    /\ Len(retrievalResult.results) = 3
    /\ LET results == retrievalResult.results
       IN  /\ history[results[1]].score > history[results[2]].score
           /\ history[results[2]].score = history[results[3]].score
           /\ history[results[2]].sent_at > history[results[3]].sent_at


\* the messages reachable from ids along parent references
RECURSIVE UpFrom(_)
UpFrom(ids) ==
    LET more == ids \cup ({parentOf[m] : m \in ids} \ {NoParent})
    IN  IF more = ids THEN ids ELSE UpFrom(more)

\* a message that is its own ancestor
OnCycle(m) == parentOf[m] # NoParent /\ m \in UpFrom({parentOf[m]})

\* the root of the thread of m: its ancestor without parent, or the lowest
\* id of the cycle its references lead into
RootOf(m) ==
    LET up == UpFrom({m})
    IN  IF \E a \in up : parentOf[a] = NoParent
        THEN CHOOSE a \in up : parentOf[a] = NoParent
        ELSE Lowest({a \in up : OnCycle(a)})

\* C20: a run of the Thread Reconstructor ends on every reference graph,
\* cyclic ones included; a traversal visits no message twice; and at the
\* end every message is in the thread of its root, which for references
\* that lead into a cycle is the lowest message id of that cycle.
C20_ReconstructionTerminates ==
    /\ [](\A i, j \in DOMAIN path : i # j => path[i] # path[j])
    /\ [](phase = "done" => \A m \in Msgs : threadKey[m] = RootOf(m))
    /\ <>(phase = "done")

\* messages 1 and 2 reference each other: both are in the thread of 1
C20_Witness ==
    /\ phase = "done"
    /\ parentOf[1] = 2
    /\ parentOf[2] = 1
    /\ threadKey[1] = 1
    /\ threadKey[2] = 1

\* ------------------------------------------------------------------- C21
\* the password a handled request carries (undefined when the body could
\* not be read)
Carried(req) == req.body.password

Granted(req) == req.response.success /\ req.response.status = 200

\* the password is missing (no member, or null) or empty
MissingOrEmpty(value) ==
    \/ value.t \in {"undefined", "null"}
    \/ value.t = "string" /\ value.v = ""
    \/ value.t = "number" /\ value.v = "0"

\* what holds of every handled request whatever its body: access only for
\* a non-empty password equal to the configured one, never without a
\* configured password, success only with status 200
GrantedRightly(req) ==
    /\ Granted(req) =>
          /\ ~MissingOrEmpty(Carried(req))
          /\ CORRECT_PASSWORD # Undefined
          /\ Carried(req) = CORRECT_PASSWORD
    /\ req.response.success => req.response.status = 200
    /\ ~MissingOrEmpty(Carried(req)) =>
          req.response.status =
              IF Carried(req) = CORRECT_PASSWORD THEN 200 ELSE 401

\* the router goes to the application in this step
Navigates == location = "/" /\ location' = "/add-email"

\* the form has received a response with success true
FormGranted == pfNet.st = "answered" /\ pfNet.response.success

\* C21 as stated: access is granted (success true, status 200) only for a
\* non-empty password equal to the configured PASSWORD, every request with
\* a missing or empty password is answered 400, every other password 401,
\* nothing is granted when no PASSWORD is configured, and PasswordForm
\* navigates to the application only on a response with success true.
C21_PasswordCheck ==
    [][/\ posted' # NoRequest =>
            /\ GrantedRightly(posted')
            /\ MissingOrEmpty(Carried(posted')) =>
                  posted'.response.status = 400
       /\ Navigates => FormGranted]_passwordVars

\* C21 amended: as C21, but only a request whose body can be read as a JSON
\* object is answered 400 for a missing or empty password; a request whose
\* body cannot be read is answered 500 with success false.
C21_PasswordCheckReadable ==
    [][/\ posted' # NoRequest =>
            /\ GrantedRightly(posted')
            /\ MissingOrEmpty(Carried(posted')) =>
                  posted'.response.status =
                      IF posted'.body.readable THEN 400 ELSE 500
            /\ ~posted'.body.readable => ~posted'.response.success
       /\ Navigates => FormGranted]_passwordVars

\* the form was granted access and has navigated, and the route has since
\* answered a request whose body it could not read
C21_Witness ==
    /\ location = "/add-email"
    /\ posted # NoRequest
    /\ ~posted.body.readable
    /\ posted.response.status = 500

\* ------------------------------------------------------------------- C22
\* no fetch of the page is outstanding
AllCompleted ==
    /\ recipientsReq = EmptyBag
    /\ conversationReqs = EmptyBag
    /\ threadReqs = EmptyBag

\* the thread of the entry selected in ThreadSelect
SelectedThread ==
    LET selectedEmail == CHOOSE m \in Corpus : m.message_id = selectedEmailId
    IN  threadBySubject(selectedEmail.subject)

\* C22: once every request has completed, the thread messages displayed and
\* offered for generation are those of the thread that is selected (none if
\* its query failed), whatever was selected before and in whatever order
\* the responses arrived.
C22_ThreadOfCurrentSelection ==
    (AllCompleted /\ selectedEmailId # "" /\ Len(recipients) > 0) =>
        threadMessages \in {<<>>, SelectedThread}

\* ------------------------------------------------------------------- C23
\* C23: loadingEmails is true while a conversation query is outstanding and
\* loadingThread while a thread query is, also when several queries of one
\* kind overlap; a flag is false only when no query of its kind remains.
C23_LoadingWhileOutstanding ==
    /\ conversationReqs # EmptyBag => loadingEmails
    /\ threadReqs # EmptyBag => loadingThread

\* ------------------------------------------------------------------- C24
\* one of the six scores is set
AnyScoreSet ==
    \E f \in ScoreFields : reply1Eval[f] # Unset \/ reply2Eval[f] # Unset

\* C24: whenever a score is set a reply pair is displayed; a click on
\* Generate clears the six scores together with the replies; and whenever
\* the pair displayed changes no score is set, so every score of an exported
\* record was entered for the pair exported with it.
C24_ScoresOfDisplayedPair ==
    [][/\ AnyScoreSet' => generatedReplies' # Null
       /\ (loading' /\ ~loading) => (~AnyScoreSet' /\ generatedReplies' = Null)
       /\ generatedReplies' # generatedReplies => ~AnyScoreSet'
       /\ Exported' =>
             /\ download'.content.RAG.reply = generatedReplies.full_context_reply
             /\ download'.content.noRAG.reply = generatedReplies.thread_only_reply
             /\ UNCHANGED <<generatedReplies, evals>>]_vars

\* a record is exported with the pair displayed, all scores having been
\* entered since that pair arrived
C24_Witness ==
    /\ Exported
    /\ ~loading
    /\ generatedReplies =
          [full_context_reply |-> <<"withContext", 2>>,
           thread_only_reply |-> <<"contextFree", 2>>]
    /\ download.content.RAG.reply = <<"withContext", 2>>
    /\ \A f \in ScoreFields : reply1Eval[f] # Unset /\ reply2Eval[f] # Unset

\* ------------------------------------------------------------------- C25
\* C25: the custom_prompt of an exported record is the custom prompt sent
\* in the request that produced the two replies of the record, also when
\* the prompt field was edited between generating and saving.
C25_RecordedPromptWasSent ==
    Exported => download.content.custom_prompt = promptSent

\* ------------------------------------------------------------------- C26
\* a new request of the component goes out in this step
Issues ==
    /\ net' # net
    /\ net'.st = "pending"
    /\ net'.full_context_reply = NotYet
    /\ net'.thread_only_reply = NotYet

\* C26: a request is issued only while none is outstanding and for a thread
\* that is not empty; while a request is outstanding the component is
\* loading and Generate is disabled; loading ends, and Generate is enabled
\* again, only when that request has completed or failed (or the component
\* is gone).
C26_OneRequestOutstanding ==
    [][/\ Issues =>
             /\ net = Idle
             /\ ~loading
             /\ Len(threadMessages) > 0
             /\ Len(net'.body.thread_messages) > 0
       /\ net'.st # "idle" => (loading' /\ GenerateDisabled')
       /\ (loading /\ ~loading') =>
             (net.st \in {"ok", "bad", "neterr"} /\ net' = Idle) \/ ~Mounted'
       /\ (Mounted /\ GenerateDisabled /\ Mounted' /\ ~GenerateDisabled') =>
             net.st \in {"ok", "bad", "neterr"}]_vars

\* a request is outstanding with one variant generated, Generate is disabled
C26_Witness ==
    /\ net.st = "pending"
    /\ net.thread_only_reply \in ReplyTexts("contextFree")
    /\ net.full_context_reply = NotYet
    /\ loading
    /\ GenerateDisabled
    /\ Len(net.body.thread_messages) = 2

\* ------------------------------------------------------------------- C27
\* ThreadView and GenerateReply are rendered with a thread
ThreadDisplayed ==
    /\ Len(recipients) > 0
    /\ selectedEmailId # ""
    /\ Len(threadMessages) > 0

\* C27: every message of the thread displayed, and sent as thread_messages,
\* for the selected conversation was exchanged between the address the
\* conversation was fetched for, which is the sender sent to api/generate,
\* and the selected recipient, which is the receiver sent; no message of
\* another correspondent is included.
C27_ThreadOfSelectedPair ==
    ThreadDisplayed =>
        /\ RequestBody.receiver = selectedRecipient
        /\ \A i \in DOMAIN RequestBody.thread_messages :
              LET m == RequestBody.thread_messages[i]
              IN  /\ m = threadMessages[i]
                  /\ {m.sender, m.receiver} =
                        {RequestBody.sender, RequestBody.receiver}
====
